---- MODULE Spec2Model ----
(***************************************************************************)
(* Model of src/scraper_utils.py: scrape_table_from_url and close_browser. *)
(* The browser (helium/selenium), the HTML tree (BeautifulSoup) and the    *)
(* returned frame (pandas) are modelled by what the calls in the source do. *)
(***************************************************************************)
EXTENDS Integers, Sequences, FiniteSets, TLC

VARIABLES
    site,     \* the DOM tree the url renders to (page_source when snapshotted)
    driver,   \* helium's process-global driver handle: NoDriver or a session id
    live,     \* ids of the browser sessions whose process is alive
    launched, \* number of browsers launched so far (the next id is launched + 1)
    call,     \* the call that returned last: its name, inputs and what its steps met
    prev,     \* name and teardown outcome of the call before it
    ret,      \* value returned by the last call
    exc,      \* exception the last call raised to its caller
    out       \* lines the last call printed

vars == <<site, driver, live, launched, call, prev, ret, exc, out>>

\* ---------------------------------------------------------------- bounds
MaxLaunches == 3
MaxRows == 2
MaxCells == 2

\* ------------------------------------------------------- program constants
DefaultTimeoutSecs == 30

\* ------------------------------------------------------------- HTML tree
\* A node of the parsed tree: an element (tag, kids) or a text node (str).
Text(s) == [tag |-> "#text", str |-> s, kids |-> <<>>]
El(t, ks) == [tag |-> t, str |-> <<>>, kids |-> ks]
None == [tag |-> "#none", str |-> <<>>, kids |-> <<>>]

\* All nodes below a sequence of siblings, in document order.
RECURSIVE DescendantsOf(_)
DescendantsOf(ks) ==
    IF ks = <<>> THEN <<>>
    ELSE <<Head(ks)>> \o DescendantsOf(Head(ks).kids) \o DescendantsOf(Tail(ks))

\* Tag.find_all(names): every descendant element with one of the names.
find_all(n, names) == SelectSeq(DescendantsOf(n.kids), LAMBDA x : x.tag \in names)

\* Tag.find(name): the first such descendant, or None.
find(n, name) ==
    LET all == find_all(n, {name}) IN IF all = <<>> THEN None ELSE all[1]

\* str.strip(): leading and trailing whitespace removed.
RECURSIVE LStrip(_)
LStrip(s) == IF s # <<>> /\ Head(s) = " " THEN LStrip(Tail(s)) ELSE s
RECURSIVE RStrip(_)
RStrip(s) ==
    IF s # <<>> /\ s[Len(s)] = " " THEN RStrip(SubSeq(s, 1, Len(s) - 1)) ELSE s
Strip(s) == RStrip(LStrip(s))

\* Tag.get_text(strip=True): the descendant strings, each stripped, the empty
\* ones skipped, joined with no separator.
RECURSIVE JoinStripped(_)
JoinStripped(ns) ==
    IF ns = <<>> THEN <<>>
    ELSE (IF Head(ns).tag = "#text" THEN Strip(Head(ns).str) ELSE <<>>)
         \o JoinStripped(Tail(ns))
get_text(n) == JoinStripped(DescendantsOf(n.kids))

\* [x.get_text(strip=True) for x in ns]
Texts(ns) == [i \in 1..Len(ns) |-> get_text(ns[i])]

\* ------------------------------------------------------- table extraction
\* Null sentinel padded into short rows.
Null == <<"None">>

\* The header list.
Headers(tbl) ==
    LET thead == find(tbl, "thead") IN
    IF thead # None
    THEN Texts(find_all(thead, {"th"}))
    ELSE LET first_row == find(tbl, "tr") IN
         IF first_row # None
         THEN Texts(find_all(first_row, {"th", "td"}))
         ELSE <<>>

\* The cells of one <tr>.
Cells(tr) == Texts(find_all(tr, {"td", "th"}))

\* any(c != '' for c in cells)
NonEmptyRow(cells) == \E i \in 1..Len(cells) : cells[i] # <<>>

\* Variant of BodyScope: the <tbody> is ignored and the whole table is walked.
BodyScopeWholeTable(tbl) == tbl

\* The element whose <tr> descendants are the body rows.
BodyScope(tbl) ==
    LET tbody == find(tbl, "tbody") IN IF tbody # None THEN tbody ELSE tbl

\* Variant of BodyRows: the row taken as the header is left out of the body.
BodyRowsWithoutHeaderRow(tbl) ==
    LET trs == find_all(BodyScope(tbl), {"tr"})
        body == IF find(tbl, "thead") = None /\ trs # <<>> /\ trs[1] = find(tbl, "tr")
                THEN Tail(trs) ELSE trs
    IN SelectSeq([i \in 1..Len(body) |-> Cells(body[i])], NonEmptyRow)

\* The retained rows.
BodyRows(tbl) ==
    LET trs == find_all(BodyScope(tbl), {"tr"}) IN
    SelectSeq([i \in 1..Len(trs) |-> Cells(trs[i])], NonEmptyRow)

\* Variant of NormalizeRow: short rows are padded, long rows are left as they are.
NormalizeRowNoCut(r, max_cols) ==
    IF Len(r) < max_cols
    THEN r \o [i \in 1..(max_cols - Len(r)) |-> Null]
    ELSE r

\* One row brought to max_cols cells.
NormalizeRow(r, max_cols) ==
    IF Len(r) < max_cols
    THEN r \o [i \in 1..(max_cols - Len(r)) |-> Null]
    ELSE SubSeq(r, 1, max_cols)

\* Variant of Normalized: rows longer than the headers are dropped, not cut.
NormalizedDropLong(headers, rows) ==
    LET kept == SelectSeq(rows, LAMBDA r : Len(r) <= Len(headers)) IN
    [i \in 1..Len(kept) |-> NormalizeRow(kept[i], Len(headers))]

Normalized(headers, rows) ==
    [i \in 1..Len(rows) |-> NormalizeRow(rows[i], Len(headers))]

Max(S) == IF S = {} THEN 0 ELSE CHOOSE m \in S : \A x \in S : x <= m

\* pd.DataFrame(data, columns=headers): named columns, one row per list.
DataFrameNamed(data, headers) ==
    [columns |-> headers, data |-> data, shape |-> <<Len(data), Len(headers)>>]

\* pd.DataFrame(rows): positional columns 0..width-1, where width is the
\* widest list; shorter lists are filled with the null value.
DataFrameRows(rows) ==
    LET width == Max({Len(rows[i]) : i \in 1..Len(rows)}) IN
    [columns |-> <<>>,
     data |-> [i \in 1..Len(rows) |->
                 rows[i] \o [j \in 1..(width - Len(rows[i])) |-> Null]],
     shape |-> <<Len(rows), width>>]

\* pd.DataFrame()
EmptyDataFrame == [columns |-> <<>>, data |-> <<>>, shape |-> <<0, 0>>]

\* The frame built from the first table.
TableFrame(tbl) ==
    LET headers == Headers(tbl)
        rows == BodyRows(tbl)
    IN IF headers # <<>>
       THEN DataFrameNamed(Normalized(headers, rows), headers)
       ELSE DataFrameRows(rows)

\* A line printed: its text and the values formatted into it.
Line(text, values) == <<text, values>>

\* From the snapshot to the returned frame and the lines printed.
Extract(rendered) ==
    LET tbl == find(rendered, "table") IN
    IF tbl = None
    THEN [df |-> EmptyDataFrame, out |-> <<Line("No <table> found in page source", <<>>)>>]
    ELSE LET df == TableFrame(tbl) IN
         [df |-> df, out |-> <<Line("Extracted DataFrame shape", df.shape)>>]

\* ------------------------------------------------------- browser session
NoDriver == 0

\* Outcomes kill_browser() can meet: with no driver it raises; with one,
\* quit() returns, or raises with the browser process gone or still running.
TeardownOutcomes(d) ==
    IF d = NoDriver THEN {"no_driver"} ELSE {"ok", "failed_gone", "failed_alive"}

\* helium.kill_browser(): require_driver().quit(), then the handle is reset.
\* The handle is reset only when quit() returned.
kill_browser(d, l, outcome) ==
    CASE outcome = "ok"           -> [raised |-> FALSE, driver |-> NoDriver, live |-> l \ {d}]
      [] outcome = "failed_gone"  -> [raised |-> TRUE, driver |-> d, live |-> l \ {d}]
      [] outcome = "failed_alive" -> [raised |-> TRUE, driver |-> d, live |-> l]
      [] OTHER                    -> [raised |-> TRUE, driver |-> d, live |-> l]

\* helium.start_chrome(url, ...): a new browser, which becomes the driver.
start_chrome(l, id) == [driver |-> id, live |-> l \cup {id}]

\* Arguments of the Options built when chrome_options is None.
DefaultArguments == {"--no-sandbox", "--disable-dev-shm-usage", "--disable-gpu"}
CustomArguments == {"--window-size=800,600"}
ResolveOptions(chrome_options) ==
    IF chrome_options = "None" THEN DefaultArguments ELSE CustomArguments

Timeouts == {1, DefaultTimeoutSecs}
OptionChoices == {"None", "custom"}
LaunchOutcomes == {"ok", "failed"}
\* wait_until: a table appeared, the timeout expired, the condition raised, or
\* the browser died while it was polled.
WaitOutcomes == {"found", "timeout", "error", "crashed"}

NoCall == [op |-> "none", timeout_secs |-> 0, options |-> {}, teardown |-> "none",
           launch |-> "none", wait |-> "none", session |-> NoDriver]
Summary(c) == [op |-> c.op, teardown |-> c.teardown]

\* Variant of TryKillBrowser: the teardown's exception is not caught.
KillBrowserUncaught(d, l, outcome) == kill_browser(d, l, outcome)

\* try: kill_browser() / except Exception: pass
\* The teardown's effect is kept and its exception is dropped.
TryKillBrowser(d, l, outcome) ==
    [kill_browser(d, l, outcome) EXCEPT !.raised = FALSE]

\* Variant of CaughtByExcept: only the timeout is caught.
CaughtOnlyTimeout(wait) == wait = "timeout"

\* except Exception as e: every failure of the wait is caught.
CaughtByExcept(wait) == wait \in {"timeout", "error", "crashed"}

\* Variant of OnWaitFailure: the line shows the default timeout, not the call's.
OnWaitFailureDefaultSecs(timeout_secs) ==
    [ret |-> <<EmptyDataFrame>>,
     out |-> <<Line("Table not found within seconds", <<DefaultTimeoutSecs>>)>>]

\* The except branch of the wait: one line printed, an empty frame returned.
OnWaitFailure(timeout_secs) ==
    [ret |-> <<EmptyDataFrame>>,
     out |-> <<Line("Table not found within seconds", <<timeout_secs>>)>>]

\* scrape_table_from_url(url, headless, timeout_secs, chrome_options)
ScrapeTableFromUrl(timeout_secs, chrome_options, teardown, launch, wait) ==
    LET options == ResolveOptions(chrome_options)
        killed == TryKillBrowser(driver, live, teardown)
        id == launched + 1
        started == start_chrome(killed.live, id)
        this == [op |-> "scrape_table_from_url", timeout_secs |-> timeout_secs,
                 options |-> options, teardown |-> teardown, launch |-> "none",
                 wait |-> "none", session |-> NoDriver]
    IN
    /\ launched < MaxLaunches
    /\ teardown \in TeardownOutcomes(driver)
    /\ prev' = Summary(call)
    /\ UNCHANGED site
    /\ IF killed.raised
       THEN \* the teardown's exception leaves the function
            /\ driver' = killed.driver
            /\ live' = killed.live
            /\ UNCHANGED launched
            /\ call' = this
            /\ ret' = <<>>
            /\ exc' = "TeardownFailure"
            /\ out' = <<>>
       ELSE IF launch = "failed"
       THEN \* start_chrome raises
            /\ driver' = killed.driver
            /\ live' = killed.live
            /\ UNCHANGED launched
            /\ call' = [this EXCEPT !.launch = launch]
            /\ ret' = <<>>
            /\ exc' = "LaunchFailure"
            /\ out' = <<>>
       ELSE /\ driver' = started.driver
            /\ launched' = id
            /\ call' = [this EXCEPT !.launch = launch, !.wait = wait, !.session = id]
            /\ live' = IF wait = "crashed" THEN started.live \ {id} ELSE started.live
            /\ IF wait = "found"
               THEN LET x == Extract(site) IN
                    ret' = <<x.df>> /\ out' = x.out /\ exc' = "none"
               ELSE IF CaughtByExcept(wait)
               THEN LET x == OnWaitFailure(timeout_secs) IN
                    ret' = x.ret /\ out' = x.out /\ exc' = "none"
               ELSE ret' = <<>> /\ out' = <<>> /\ exc' = "WaitFailure"

\* close_browser()
CloseBrowser(teardown) ==
    LET killed == kill_browser(driver, live, teardown) IN
    /\ teardown \in TeardownOutcomes(driver)
    /\ prev' = Summary(call)
    /\ driver' = killed.driver
    /\ live' = killed.live
    /\ call' = [NoCall EXCEPT !.op = "close_browser", !.teardown = teardown]
    /\ ret' = <<>>
    /\ exc' = "none"
    /\ out' = IF killed.raised
              THEN <<Line("kill_browser() failed or browser already closed", <<>>)>>
              ELSE <<Line("Browser closed successfully.", <<>>)>>
    /\ UNCHANGED <<site, launched>>

\* ------------------------------------------------------------------ pages
Page(body) == El("html", <<El("body", body)>>)
Cell(t, s) == El(t, <<Text(s)>>)
Row(cells) == El("tr", cells)

\* A cell that holds a whole table of its own.
NestedCell ==
    El("td", <<El("table", <<El("tbody", <<Row(<<Cell("td", <<"n">>)>>)>>)>>)>>)

BodyCells == {Cell("td", <<" ">>), Cell("td", <<" ", "a">>)}
SeqsUpTo(S, n) == UNION {[1..k -> S] : k \in 0..n}
RowCells == SeqsUpTo(BodyCells, MaxCells)
RowLists == SeqsUpTo(RowCells, MaxRows)

\* <thead> variants: absent, or one header row.
Theads == {<<>>,
           <<El("thead", <<Row(<<Cell("th", <<"A">>)>>)>>)>>,
           <<El("thead", <<Row(<<Cell("th", <<"A", " ">>), Cell("th", <<"B">>)>>)>>)>>,
           <<El("thead", <<Row(<<Cell("td", <<"A">>)>>)>>)>>}

\* A table: optional <thead>, the rows inside a <tbody> or directly in the
\* table, and optionally a nested table in an extra cell of the first row.
Table(thead, wrap, rows, nest) ==
    LET trs == [i \in 1..Len(rows) |->
                  Row(rows[i] \o (IF nest /\ i = 1 THEN <<NestedCell>> ELSE <<>>))]
    IN El("table", thead \o (IF wrap THEN <<El("tbody", trs)>> ELSE trs))

GeneratedPages ==
    {Page(<<Table(h, w, rs, n)>>) :
        h \in Theads, w \in BOOLEAN, rs \in RowLists, n \in BOOLEAN}

\* The spec's scenarios S1 to S4 as pages.
S1Page ==
    Page(<<El("table",
        <<El("thead", <<Row(<<Cell("th", <<"A">>), Cell("th", <<"B">>)>>)>>),
          El("tbody", <<Row(<<Cell("td", <<"1">>), Cell("td", <<"2">>)>>),
                        Row(<<Cell("td", <<"3">>), Cell("td", <<"4">>)>>)>>)>>)>>)
S2Page ==
    Page(<<El("table",
        <<Row(<<Cell("th", <<"X">>), Cell("th", <<"Y">>)>>),
          Row(<<Cell("td", <<"a">>), Cell("td", <<"b">>)>>)>>)>>)
S3Page ==
    Page(<<El("table",
        <<El("thead", <<Row(<<Cell("th", <<"A">>), Cell("th", <<"B">>),
                              Cell("th", <<"C">>)>>)>>),
          El("tbody", <<Row(<<Cell("td", <<"1">>), Cell("td", <<"2">>)>>),
                        Row(<<Cell("td", <<"3">>), Cell("td", <<"4">>),
                              Cell("td", <<"5">>), Cell("td", <<"6">>)>>)>>)>>)>>)
S4Page ==
    Page(<<El("table",
        <<El("thead", <<Row(<<Cell("th", <<"A">>)>>)>>),
          El("tbody", <<Row(<<Cell("td", <<>>), Cell("td", <<" ", " ">>),
                              Cell("td", <<>>)>>),
                        Row(<<Cell("td", <<"1">>)>>)>>)>>)>>)
NoTablePage == Page(<<El("div", <<Text(<<"a">>)>>)>>)
ScenarioPages == {S1Page, S2Page, S3Page, S4Page, NoTablePage}

TablePages == GeneratedPages \cup ScenarioPages

\* ---------------------------------------------------------- specifications
InitWith(pages) ==
    /\ site \in pages
    /\ driver = NoDriver
    /\ live = {}
    /\ launched = 0
    /\ call = NoCall
    /\ prev = Summary(NoCall)
    /\ ret = <<>>
    /\ exc = "none"
    /\ out = <<>>

Scrape ==
    \E t \in Timeouts, o \in OptionChoices, td \in TeardownOutcomes(driver),
       l \in LaunchOutcomes, w \in WaitOutcomes :
        ScrapeTableFromUrl(t, o, td, l, w)

Close == \E td \in TeardownOutcomes(driver) : CloseBrowser(td)

\* Any sequence of calls of the two functions, on a scenario page.
Init == InitWith(ScenarioPages)
Next == Scrape \/ Close
Spec == Init /\ [][Next]_vars

\* One call that finds a table, on every generated page.
ScrapeOnce ==
    /\ call = NoCall
    /\ \E o \in OptionChoices :
         ScrapeTableFromUrl(DefaultTimeoutSecs, o, "no_driver", "ok", "found")
InitExtract == InitWith(TablePages)
NextExtract == ScrapeOnce
SpecExtract == InitExtract /\ [][NextExtract]_vars

\* ------------------------------------------------------------------ claims
\* The first table of the page and the frame the last call returned.
TheTable == find(site, "table")
Extracted == call.wait = "found" /\ ret # <<>> /\ TheTable # None
Df == ret[1]
Range(f) == {f[i] : i \in DOMAIN f}

\* The retained rows among the <tr> descendants of an element.
RetainedUnder(scope) ==
    SelectSeq([i \in 1..Len(find_all(scope, {"tr"})) |->
                  Texts(find_all(find_all(scope, {"tr"})[i], {"td", "th"}))],
              LAMBDA r : \E j \in 1..Len(r) : r[j] # <<>>)
\* The retained rows among the <tr> children of an element.
RetainedChildren(scope) ==
    SelectSeq([i \in 1..Len(SelectSeq(scope.kids, LAMBDA k : k.tag = "tr")) |->
                  Texts(find_all(SelectSeq(scope.kids, LAMBDA k : k.tag = "tr")[i],
                               {"td", "th"}))],
              LAMBDA r : \E j \in 1..Len(r) : r[j] # <<>>)
\* Cell j of a row brought to a given width: the row's cell, or the null.
CellAt(r, j) == IF j <= Len(r) THEN r[j] ELSE Null
\* The frame of given headers and retained rows.
FrameOf(headers, rows) ==
    LET width == IF headers # <<>> THEN Len(headers)
                 ELSE Max({Len(rows[i]) : i \in 1..Len(rows)})
    IN [columns |-> headers,
        data |-> [i \in 1..Len(rows) |-> [j \in 1..width |-> CellAt(rows[i], j)]],
        shape |-> <<Len(rows), width>>]

\* C1: at most one browser session is live at any moment, across any sequence
\* of scrape_table_from_url and close_browser calls, failed teardowns included.
C1_AtMostOneLiveSession == Cardinality(live) <= 1

\* C2: no row of a returned frame consists only of empty cells, as returned
\* (after padding or truncation to the header length).
C2_NoAllEmptyRowReturned ==
    ret # <<>> =>
        \A i \in 1..Len(Df.data) : \E j \in 1..Len(Df.data[i]) : Df.data[i][j] # <<>>

\* C3: every returned frame is rectangular: each row has as many cells as there
\* are columns; with headers the column count is their number, without headers
\* it is the widest retained row's width and shorter rows end in nulls.
C3_Rectangular ==
    ret # <<>> =>
        /\ Df.shape[1] = Len(Df.data)
        /\ \A i \in 1..Len(Df.data) : Len(Df.data[i]) = Df.shape[2]
        /\ Df.columns # <<>> => Df.shape[2] = Len(Df.columns)
        /\ (Extracted /\ Headers(TheTable) = <<>>) =>
              LET rows == BodyRows(TheTable) IN
              /\ Len(Df.data) = Len(rows)
              /\ \A i \in 1..Len(rows) : Len(rows[i]) <= Df.shape[2]
              /\ rows # <<>> => \E i \in 1..Len(rows) : Len(rows[i]) = Df.shape[2]
              /\ \A i \in 1..Len(rows) : \A j \in 1..Df.shape[2] :
                    Df.data[i][j] = CellAt(rows[i], j)
C3_Witness ==
    /\ Extracted
    /\ Headers(TheTable) = <<>>
    /\ \E i, k \in 1..Len(Df.data) :
          /\ Null \in Range(Df.data[i])
          /\ Null \notin Range(Df.data[k])

\* C4: with a non-empty header list of length C, the i-th returned row is the
\* i-th retained body row, padded on the right with nulls to C cells or cut to
\* its first C cells; rows are neither added, dropped nor reordered, and the
\* columns are the headers in document order.
C4_RowsPaddedOrCutInOrder ==
    (Extracted /\ Headers(TheTable) # <<>>) =>
        LET headers == Headers(TheTable)
            rows == BodyRows(TheTable)
        IN /\ Df.columns = headers
           /\ Len(Df.data) = Len(rows)
           /\ \A i \in 1..Len(rows) :
                 /\ Len(Df.data[i]) = Len(headers)
                 /\ \A j \in 1..Len(headers) : Df.data[i][j] = CellAt(rows[i], j)
C4_Witness ==
    /\ Extracted
    /\ Headers(TheTable) # <<>>
    /\ \E i, k \in 1..Len(Df.data) :
          /\ Len(BodyRows(TheTable)[i]) < Len(Df.data[i])
          /\ Len(BodyRows(TheTable)[k]) > Len(Df.data[k])

\* C5: two close_browser calls in succession never raise, and after a
\* successful teardown the second call leaves no live session.
C5_SecondCloseLeavesNoSession ==
    (call.op = "close_browser" /\ prev.op = "close_browser") =>
        /\ exc = "none"
        /\ prev.teardown = "ok" => (live = {} /\ driver = NoDriver)

\* C6: when no table appears within timeout_secs, the call returns the empty
\* frame of shape (0, 0), raises nothing, prints a line holding timeout_secs,
\* and the session it launched is still live.
C6_TimeoutReturnsEmptyKeepsSession ==
    call.wait = "timeout" =>
        /\ exc = "none"
        /\ ret = <<EmptyDataFrame>>
        /\ Df.shape = <<0, 0>>
        /\ \E i \in 1..Len(out) : call.timeout_secs \in Range(out[i][2])
        /\ call.session \in live
        /\ driver = call.session
C6_Witness ==
    /\ call.wait = "timeout"
    /\ call.timeout_secs # DefaultTimeoutSecs
    /\ call.session \in live

\* C7: a failed pre-launch teardown never aborts scrape_table_from_url (the
\* launch is still attempted), and a failed launch is raised to the caller
\* with no frame returned.
C7_TeardownSwallowedLaunchRaised ==
    call.op = "scrape_table_from_url" =>
        /\ exc # "TeardownFailure"
        /\ call.launch \in LaunchOutcomes
        /\ call.launch = "failed" => (exc = "LaunchFailure" /\ ret = <<>>)
        /\ call.launch = "ok" => call.session = driver
C7_Witness ==
    /\ call.op = "scrape_table_from_url"
    /\ call.teardown \in {"no_driver", "failed_gone", "failed_alive"}
    /\ \/ call.launch = "failed" /\ call.teardown = "failed_alive"
       \/ call.launch = "ok" /\ call.teardown = "failed_gone" /\ ret # <<>>

C9_RowsFromTbodyChildren ==
    Extracted =>
        LET tbody == find(TheTable, "tbody") IN
        Df = FrameOf(Headers(TheTable),
                     IF tbody # None THEN RetainedChildren(tbody)
                     ELSE RetainedUnder(TheTable))

\* C9 amended: when the first table has a <tbody> below it, the body rows are
\* all <tr> descendants of the first <tbody>, rows of tables nested in its
\* cells included; without one, all <tr> descendants of the table.
C9_RowsFromTbodyDescendants ==
    Extracted =>
        LET tbody == find(TheTable, "tbody") IN
        Df = FrameOf(Headers(TheTable),
                     IF tbody # None THEN RetainedUnder(tbody)
                     ELSE RetainedUnder(TheTable))
C9_Witness ==
    /\ Extracted
    /\ find(TheTable, "tbody") # None
    /\ find(TheTable, "tbody") \in Range(TheTable.kids)
    /\ Len(RetainedUnder(find(TheTable, "tbody")))
         > Len(RetainedChildren(find(TheTable, "tbody")))
    /\ Len(Df.data) = Len(RetainedUnder(find(TheTable, "tbody")))

\* C10: after a launch, any exception raised while waiting for the table, not
\* only the timeout, prints the 'Table not found within N seconds' line and
\* gives an empty (0, 0) frame; nothing from the wait reaches the caller.
C10_AnyWaitFailureGivesEmpty ==
    (call.launch = "ok" /\ call.wait # "found") =>
        /\ exc = "none"
        /\ ret = <<EmptyDataFrame>>
        /\ out = <<Line("Table not found within seconds", <<call.timeout_secs>>)>>
C10_Witness ==
    /\ call.wait \in {"error", "crashed"}
    /\ exc = "none"
    /\ ret = <<EmptyDataFrame>>

====
